---- MODULE Spec2Model ----
(***************************************************************************)
(* ExtensionTipsService                                                    *)
(* src/vs/workbench/parts/extensions/electron-browser/                     *)
(*     extensionTipsService.ts                                             *)
(*                                                                         *)
(* The service, the storage it persists to, the model service that feeds   *)
(* it documents, the installed-extensions query and the messages it shows. *)
(* One process at a time runs one instance of the service; Restart ends    *)
(* the process and keeps the storage, the installed extensions and the     *)
(* documents the workbench reopens.                                        *)
(***************************************************************************)
EXTENDS Naturals, Sequences, FiniteSets, TLC

VARIABLES
    galleryEnabled,     \* _galleryService.isEnabled()
    product,            \* product.extensionTips, product.extensionImportantTips
    configuration,      \* getConfiguration(ConfigurationKey).recommendations
    storage,            \* the three keys of IStorageService the service uses
    installed,          \* what extensionsService.getInstalled reports
    models,             \* uris of the models of IModelService, in order added
    engine,             \* "none", "ready" (constructor returned), "failed" (it threw)
    _recommendations,   \* keys of this._recommendations, in insertion order
    _availableRecommendations,  \* pattern -> ids, in insertion order
    importantRecommendations,   \* id -> pattern, in key order
    importantRecommendationsIgnoreList,
    storedRecommendations,      \* the local of _suggestTips, as parsed
    _disposables,       \* number of live onModelAdded subscriptions
    units,              \* the setImmediate callbacks of _suggest
    wsRuns,             \* the runs of _suggestWorkspaceRecommendations past its guards
    messages,           \* messages of messageService.show still open
    restarts            \* process restarts so far

vars == <<galleryEnabled, product, configuration, storage, installed, models,
          engine, _recommendations, _availableRecommendations,
          importantRecommendations, importantRecommendationsIgnoreList,
          storedRecommendations, _disposables, units, wsRuns, messages,
          restarts>>

config == <<galleryEnabled, product, configuration>>

service == <<engine, _recommendations, _availableRecommendations,
             importantRecommendations, importantRecommendationsIgnoreList,
             storedRecommendations, _disposables>>

---------------------------------------------------------------------------
(* Bounds *)

MaxModels == 2
MaxWorkspaceRuns == 2
MaxRestarts == 1

---------------------------------------------------------------------------
(* Values *)

Range(s) == {s[k] : k \in 1..Len(s)}

Publishers == {"pub"}
Names == {"ext1", "ext2"}
Stems == {"a", "b"}
Exts == {"ts", "md"}

\* `${local.manifest.publisher}.${local.manifest.name}`
ExtensionKey(local) == local.manifest.publisher \o "." \o local.manifest.name

Ext1 == [manifest |-> [publisher |-> "pub", name |-> "ext1"]]
Id1 == "pub.ext1"
Id2 == "pub.ext2"

GlobTs == "**/*.ts"
GlobMd == "**/*.md"

NoUri == [fsPath |-> ""]
Uris == {[fsPath |-> "a.ts"], [fsPath |-> "b.md"]}

\* match(pattern, path) of vs/base/common/glob, for patterns **/*.<ext>
match(pattern, path) ==
    \E stem \in Stems : \E ext \in Exts :
        /\ pattern = "**/*." \o ext
        /\ path = stem \o "." \o ext

\* a document whose path makes the matcher throw
BadUri == [fsPath |-> "a.?"]

\* match(pattern, path) throws instead of returning
matchThrows(pattern, path) == path = BadUri.fsPath

\* an object literal, as the sequence of its entries in key order
Undefined == [defined |-> FALSE, entries |-> <<>>]
Obj(entries) == [defined |-> TRUE, entries |-> entries]
Entry(k, v) == [key |-> k, value |-> v]

\* a stored string: no entry, the JSON text of an array, or text JSON.parse rejects
NoEntry == [kind |-> "absent", items |-> <<>>]
Garbage == [kind |-> "garbage", items |-> <<>>]

\* JSON.stringify of a string[]
JSONstringify(list) == [kind |-> "array", items |-> list]

\* storageService.get(key, scope, '[]')
storageGet(value) == IF value.kind = "absent" THEN JSONstringify(<<>>) ELSE value

\* JSON.parse: throws on text that is not JSON
JSONparseThrows(text) == text.kind /= "array"
JSONparse(text) == text.items

---------------------------------------------------------------------------
(* Configurations and initial stores *)

TipMaps ==
    { Undefined,
      Obj(<<>>),
      Obj(<<Entry(Id1, GlobTs), Entry(Id2, GlobTs)>>),
      Obj(<<Entry(Id1, GlobTs), Entry(Id2, GlobMd)>>) }

ImportantTipMaps ==
    { Undefined,
      Obj(<<Entry(Id1, GlobTs), Entry(Id2, GlobMd)>>) }

WorkspaceRecommendations ==
    { Undefined, Obj(<<Id1>>), Obj(<<Id1, Id2>>) }

InitialRecommendations == { NoEntry, Garbage }
InitialIgnore == { NoEntry, Garbage }

---------------------------------------------------------------------------
(* Pure parts of the service *)

\* lines 74-84: group ids by pattern, in the order the entries are visited
RECURSIVE groupByPattern(_, _)
groupByPattern(entries, acc) ==
    IF entries = <<>> THEN acc
    ELSE LET id == Head(entries).key
             pattern == Head(entries).value
             at == {k \in 1..Len(acc) : acc[k].key = pattern}
         IN  IF at = {}
             THEN groupByPattern(Tail(entries), Append(acc, Entry(pattern, <<id>>)))
             ELSE LET k == CHOOSE k \in at : TRUE
                  IN  groupByPattern(Tail(entries),
                          [acc EXCEPT ![k].value = Append(@, id)])

\* mutant of setAll: the map is overwritten by the matched ids
setAllReplacing(recs, ids) == IF ids = <<>> THEN recs ELSE ids

\* mutant of setAll: a list push without the key lookup of an object
setAllPushing(recs, ids) == recs \o ids

\* this._recommendations[id] = true, for each id of ids in order
RECURSIVE setAll(_, _)
setAll(recs, ids) ==
    IF ids = <<>> THEN recs
    ELSE setAll(IF Head(ids) \in Range(recs) THEN recs ELSE Append(recs, Head(ids)),
                Tail(ids))

\* mutant of matchedIds: only the first id of the group
matchedIdsFirstOnly(entry, uri) ==
    IF match(entry.key, uri.fsPath) THEN <<Head(entry.value)>> ELSE <<>>

\* the ids a group adds for a document: all of them when the pattern matches
matchedIds(entry, uri) ==
    IF match(entry.key, uri.fsPath) THEN entry.value ELSE <<>>

\* lines 99-106: every pattern of the index against the document
RECURSIVE matchAll(_, _, _)
matchAll(available, uri, recs) ==
    IF available = <<>> THEN recs
    ELSE matchAll(Tail(available), uri, setAll(recs, matchedIds(Head(available), uri)))

\* mutant of notInstalled: the id is compared with the name alone
notInstalledByName(local, id) == \A k \in 1..Len(local) : local[k].manifest.name /= id

\* local.every(local => `${publisher}.${name}` !== id)
notInstalled(local, id) == \A k \in 1..Len(local) : ExtensionKey(local[k]) /= id

\* mutant of notIgnored: the ignore list is not consulted
\* mutant of notIgnored: the test sees the list as it was before the latest
\* dismissal
notIgnoredBeforeLatest(ignoreList, id) ==
    \A k \in 1..(Len(ignoreList) - 1) : ignoreList[k] /= id

notIgnoredUnchecked(ignoreList, id) == TRUE

\* this.importantRecommendationsIgnoreList.indexOf(id) === -1
notIgnored(ignoreList, id) == \A k \in 1..Len(ignoreList) : ignoreList[k] /= id

\* the pattern of an important tip
patternOf(important, id) ==
    (CHOOSE e \in Range(important) : e.key = id).value

\* Object.keys(this.importantRecommendations)
keys(entries) == [k \in 1..Len(entries) |-> entries[k].key]

\* lines 115-123: the ids the important gate shows a message for
\* (Array.prototype.filter is SelectSeq)
\* mutant of importantToShow: the loop stops at the first id it notifies
importantToShowFirst(important, ignoreList, local, uri) ==
    LET a == SelectSeq(keys(important), LAMBDA id : notIgnored(ignoreList, id))
        b == SelectSeq(a, LAMBDA id : notInstalled(local, id))
        c == SelectSeq(b, LAMBDA id : match(patternOf(important, id), uri.fsPath))
    IN  IF c = <<>> THEN <<>> ELSE <<c[1]>>

importantToShow(important, ignoreList, local, uri) ==
    LET a == SelectSeq(keys(important), LAMBDA id : notIgnored(ignoreList, id))
        b == SelectSeq(a, LAMBDA id : notInstalled(local, id))
    IN  SelectSeq(b, LAMBDA id : match(patternOf(important, id), uri.fsPath))

\* lines 160-161: the workspace recommendations not yet installed
\* mutant of workspaceToShow: the configured list is offered as it is
workspaceToShowUnfiltered(allRecommendations, local) == allRecommendations

workspaceToShow(allRecommendations, local) ==
    SelectSeq(allRecommendations, LAMBDA id : notInstalled(local, id))

\* lines 115-117: the ids left by the two filters, before the patterns are tried
candidates(important, ignoreList, local) ==
    SelectSeq(SelectSeq(keys(important), LAMBDA id : notIgnored(ignoreList, id)),
              LAMBDA id : notInstalled(local, id))

\* the position of the first pattern of the index at which match throws, or 0
firstThrowingPattern(available, uri) ==
    LET at == {k \in 1..Len(available) : matchThrows(available[k].key, uri.fsPath)}
    IN  IF at = {} THEN 0 ELSE CHOOSE k \in at : \A l \in at : k <= l

\* the position of the first candidate id at whose pattern match throws, or 0
firstThrowingCandidate(important, ids, uri) ==
    LET at == {k \in 1..Len(ids) :
                  matchThrows(patternOf(important, ids[k]), uri.fsPath)}
    IN  IF at = {} THEN 0 ELSE CHOOSE k \in at : \A l \in at : k <= l

\* mutant of faulted: one callback serves every pending document, and ends
faultedWithPending(us, i) ==
    [k \in 1..Len(us) |->
        IF k = i \/ us[k].pc = "scheduled" THEN [us[k] EXCEPT !.pc = "threw"]
        ELSE us[k]]

\* an exception leaves the callback of unit i: each unit is its own callback
faulted(us, i) == [us EXCEPT ![i].pc = "threw"]

\* getWorkspaceRecommendations(): configuration.recommendations || []
getWorkspaceRecommendations ==
    IF configuration.recommendations.defined
    THEN configuration.recommendations.entries ELSE <<>>

\* getRecommendations(): Object.keys(this._recommendations)
getRecommendations == _recommendations

\* _suggest up to setImmediate: a falsy uri schedules nothing
schedule(us, uri) ==
    IF uri = NoUri THEN us
    ELSE Append(us, [uri |-> uri, pc |-> "scheduled", shown |-> <<>>])

RECURSIVE scheduleAll(_, _)
scheduleAll(us, uris) ==
    IF uris = <<>> THEN us ELSE scheduleAll(schedule(us, Head(uris)), Tail(uris))

\* mutant of startWorkspaceRun: the dismissal flag is not read
startWorkspaceRunUnguarded(runs) ==
    IF Len(getWorkspaceRecommendations) = 0 THEN runs
    ELSE Append(runs, [pc |-> "query",
                       allRecommendations |-> getWorkspaceRecommendations,
                       shown |-> <<>>])

\* lines 147-157 of _suggestWorkspaceRecommendations: the guards before the query
startWorkspaceRun(runs) ==
    IF storage.workspaceRecommendationsIgnore THEN runs
    ELSE IF Len(getWorkspaceRecommendations) = 0 THEN runs
    ELSE Append(runs, [pc |-> "query",
                       allRecommendations |-> getWorkspaceRecommendations,
                       shown |-> <<>>])

---------------------------------------------------------------------------
(* Initial state: a process has started, the service is not yet created *)

Init ==
    /\ galleryEnabled \in BOOLEAN
    /\ product \in [extensionTips : TipMaps,
                    extensionImportantTips : ImportantTipMaps]
    /\ configuration \in [recommendations : WorkspaceRecommendations]
    /\ storage \in [recommendations : InitialRecommendations,
                    importantRecommendationsIgnore : InitialIgnore,
                    workspaceRecommendationsIgnore : {FALSE}]
    /\ installed = <<>>
    /\ models = <<>>
    /\ engine = "none"
    /\ _recommendations = <<>>
    /\ _availableRecommendations = <<>>
    /\ importantRecommendations = <<>>
    /\ importantRecommendationsIgnoreList = <<>>
    /\ storedRecommendations = <<>>
    /\ _disposables = 0
    /\ units = <<>>
    /\ wsRuns = <<>>
    /\ messages = {}
    /\ restarts = 0

---------------------------------------------------------------------------
(* The constructor, lines 34-49, with _suggestTips (60-88) and the guards  *)
(* of _suggestWorkspaceRecommendations (146-157)                           *)

ignoreText == storageGet(storage.importantRecommendationsIgnore)
recommendationsText == storageGet(storage.recommendations)

\* mutant of noExtensionTips: the guard of line 62 is missing
noExtensionTipsUnguarded == FALSE

\* line 62: if (!extensionTips) return
noExtensionTips == ~product.extensionTips.defined

\* JSON.parse of line 66 or of line 69 throws out of the constructor
suggestTipsThrows ==
    \/ JSONparseThrows(ignoreText)
    \/ JSONparseThrows(recommendationsText)

Construct ==
    /\ engine = "none"
    /\ UNCHANGED <<config, storage, installed, models, messages, restarts>>
    /\ IF ~galleryEnabled
       THEN \* line 43: return
            /\ engine' = "ready"
            /\ UNCHANGED <<_recommendations, _availableRecommendations,
                           importantRecommendations,
                           importantRecommendationsIgnoreList,
                           storedRecommendations, _disposables, units, wsRuns>>
       ELSE IF noExtensionTips
       THEN \* line 62: _suggestTips returns, the workspace check runs
            /\ engine' = "ready"
            /\ wsRuns' = startWorkspaceRun(wsRuns)
            /\ UNCHANGED <<_recommendations, _availableRecommendations,
                           importantRecommendations,
                           importantRecommendationsIgnoreList,
                           storedRecommendations, _disposables, units>>
       ELSE IF suggestTipsThrows
       THEN \* the exception leaves the constructor: nothing is subscribed,
            \* line 48 is not reached
            /\ engine' = "failed"
            /\ UNCHANGED <<_recommendations, _availableRecommendations,
                           importantRecommendations,
                           importantRecommendationsIgnoreList,
                           storedRecommendations, _disposables, units, wsRuns>>
       ELSE /\ engine' = "ready"
            /\ importantRecommendations' =
                  IF product.extensionImportantTips.defined
                  THEN product.extensionImportantTips.entries ELSE <<>>
            /\ importantRecommendationsIgnoreList' = JSONparse(ignoreText)
            /\ storedRecommendations' = JSONparse(recommendationsText)
            /\ _recommendations' = setAll(<<>>, JSONparse(recommendationsText))
            /\ _availableRecommendations' =
                  groupByPattern(product.extensionTips.entries, <<>>)
            /\ _disposables' = 1
            /\ units' = scheduleAll(units, models)
            /\ wsRuns' = startWorkspaceRun(wsRuns)

---------------------------------------------------------------------------
(* The model service *)

\* a model is added; onModelAdded calls _suggest when the service listens
ModelAdded(uri) ==
    /\ Len(models) < MaxModels
    /\ models' = Append(models, uri)
    /\ units' = IF _disposables > 0 THEN schedule(units, uri) ELSE units
    /\ UNCHANGED <<config, storage, installed, service, wsRuns, messages, restarts>>

---------------------------------------------------------------------------
(* _suggest, lines 97-143 *)

\* mutant of RunUnit: the store of lines 108-112 comes before the matching
RunUnitStoringFirst(i) ==
    /\ i \in 1..Len(units)
    /\ units[i].pc = "scheduled"
    /\ \A j \in 1..(i - 1) : units[j].pc /= "scheduled"
    /\ _recommendations' =
          matchAll(_availableRecommendations, units[i].uri, _recommendations)
    /\ storage' = [storage EXCEPT
                      !.recommendations = JSONstringify(_recommendations)]
    /\ units' = [units EXCEPT ![i].pc = "query"]
    /\ UNCHANGED <<config, installed, models, engine, _availableRecommendations,
                   importantRecommendations, importantRecommendationsIgnoreList,
                   storedRecommendations, _disposables, wsRuns, messages, restarts>>

\* the setImmediate callback up to the call of getInstalled (97-114);
\* setImmediate callbacks run in the order they were scheduled
\* mutant of RunUnit: a unit waits until the queries of the units before it
\* have come back
RunUnitSerial(i) ==
    /\ i \in 1..Len(units)
    /\ units[i].pc = "scheduled"
    /\ \A j \in 1..(i - 1) : units[j].pc \in {"done", "rejected"}
    /\ firstThrowingPattern(_availableRecommendations, units[i].uri) = 0
    /\ _recommendations' =
          matchAll(_availableRecommendations, units[i].uri, _recommendations)
    /\ storage' = [storage EXCEPT
                      !.recommendations = JSONstringify(_recommendations')]
    /\ units' = [units EXCEPT ![i].pc = "query"]
    /\ UNCHANGED <<config, installed, models, engine, _availableRecommendations,
                   importantRecommendations, importantRecommendationsIgnoreList,
                   storedRecommendations, _disposables, wsRuns, messages, restarts>>

RunUnit(i) ==
    /\ i \in 1..Len(units)
    /\ units[i].pc = "scheduled"
    /\ \A j \in 1..(i - 1) : units[j].pc /= "scheduled"
    /\ firstThrowingPattern(_availableRecommendations, units[i].uri) = 0
    /\ _recommendations' =
          matchAll(_availableRecommendations, units[i].uri, _recommendations)
    /\ storage' = [storage EXCEPT
                      !.recommendations = JSONstringify(_recommendations')]
    /\ units' = [units EXCEPT ![i].pc = "query"]
    /\ UNCHANGED <<config, installed, models, engine, _availableRecommendations,
                   importantRecommendations, importantRecommendationsIgnoreList,
                   storedRecommendations, _disposables, wsRuns, messages, restarts>>

importantMessage(id, i) == [kind |-> "important", id |-> id, run |-> i]
workspaceMessage(j) == [kind |-> "workspace", id |-> "", run |-> j]

\* mutant of QueryResolved: getInstalled is called in _suggest itself, outside
\* the setImmediate callback, so its callback can run before lines 99-112
QueryResolvedUnordered(i) ==
    /\ i \in 1..Len(units)
    /\ units[i].pc \in {"scheduled", "query"}
    /\ LET ids == importantToShow(importantRecommendations,
                                  importantRecommendationsIgnoreList,
                                  installed, units[i].uri)
       IN  /\ units' = [units EXCEPT ![i].pc = "done", ![i].shown = ids]
           /\ messages' = messages \cup {importantMessage(id, i) : id \in Range(ids)}
    /\ UNCHANGED <<config, storage, installed, models, service, wsRuns, restarts>>

\* getInstalled resolves: the callback of .done, lines 114-142
QueryResolved(i) ==
    /\ i \in 1..Len(units)
    /\ units[i].pc = "query"
    /\ firstThrowingCandidate(importantRecommendations,
            candidates(importantRecommendations,
                       importantRecommendationsIgnoreList, installed),
            units[i].uri) = 0
    /\ LET ids == importantToShow(importantRecommendations,
                                  importantRecommendationsIgnoreList,
                                  installed, units[i].uri)
       IN  /\ units' = [units EXCEPT ![i].pc = "done", ![i].shown = ids]
           /\ messages' = messages \cup {importantMessage(id, i) : id \in Range(ids)}
    /\ UNCHANGED <<config, storage, installed, models, service, wsRuns, restarts>>

\* getInstalled rejects: .done has no error handler, the callback never runs
QueryRejected(i) ==
    /\ i \in 1..Len(units)
    /\ units[i].pc = "query"
    /\ units' = [units EXCEPT ![i].pc = "rejected"]
    /\ UNCHANGED <<config, storage, installed, models, service, wsRuns, messages,
                   restarts>>

---------------------------------------------------------------------------
(* _suggestWorkspaceRecommendations, lines 159-178 *)

WorkspaceQueryResolved(j) ==
    /\ j \in 1..Len(wsRuns)
    /\ wsRuns[j].pc = "query"
    /\ LET recommendations == workspaceToShow(wsRuns[j].allRecommendations, installed)
       IN  IF Len(recommendations) = 0
           THEN /\ wsRuns' = [wsRuns EXCEPT ![j].pc = "done"]
                /\ UNCHANGED messages
           ELSE /\ wsRuns' = [wsRuns EXCEPT ![j].pc = "shown",
                                            ![j].shown = recommendations]
                /\ messages' = messages \cup {workspaceMessage(j)}
    /\ UNCHANGED <<config, storage, installed, models, service, units, restarts>>

WorkspaceQueryRejected(j) ==
    /\ j \in 1..Len(wsRuns)
    /\ wsRuns[j].pc = "query"
    /\ wsRuns' = [wsRuns EXCEPT ![j].pc = "rejected"]
    /\ UNCHANGED <<config, storage, installed, models, service, units, messages,
                   restarts>>

---------------------------------------------------------------------------
(* The actions of a message *)

\* neverAgainAction, lines 126-134 and 168-171
\* mutant of NeverShowAgain: the message stays open after the action, so the
\* action can be taken again
NeverShowAgainKeepingOpen(m) ==
    /\ m \in messages
    /\ UNCHANGED messages
    /\ IF m.kind = "important"
       THEN /\ importantRecommendationsIgnoreList' =
                  Append(importantRecommendationsIgnoreList, m.id)
            /\ storage' = [storage EXCEPT !.importantRecommendationsIgnore =
                  JSONstringify(importantRecommendationsIgnoreList')]
       ELSE /\ storage' = [storage EXCEPT !.workspaceRecommendationsIgnore = TRUE]
            /\ UNCHANGED importantRecommendationsIgnoreList
    /\ UNCHANGED <<config, installed, models, engine, _recommendations,
                   _availableRecommendations, importantRecommendations,
                   storedRecommendations, _disposables, units, wsRuns, restarts>>

\* mutant of NeverShowAgain: the id is pushed but the list is not stored
NeverShowAgainUnsaved(m) ==
    /\ m \in messages
    /\ messages' = messages \ {m}
    /\ IF m.kind = "important"
       THEN /\ importantRecommendationsIgnoreList' =
                  Append(importantRecommendationsIgnoreList, m.id)
            /\ UNCHANGED storage
       ELSE /\ storage' = [storage EXCEPT !.workspaceRecommendationsIgnore = TRUE]
            /\ UNCHANGED importantRecommendationsIgnoreList
    /\ UNCHANGED <<config, installed, models, engine, _recommendations,
                   _availableRecommendations, importantRecommendations,
                   storedRecommendations, _disposables, units, wsRuns, restarts>>

NeverShowAgain(m) ==
    /\ m \in messages
    /\ messages' = messages \ {m}
    /\ IF m.kind = "important"
       THEN /\ importantRecommendationsIgnoreList' =
                  Append(importantRecommendationsIgnoreList, m.id)
            /\ storage' = [storage EXCEPT !.importantRecommendationsIgnore =
                  JSONstringify(importantRecommendationsIgnoreList')]
       ELSE /\ storage' = [storage EXCEPT !.workspaceRecommendationsIgnore = TRUE]
            /\ UNCHANGED importantRecommendationsIgnoreList
    /\ UNCHANGED <<config, installed, models, engine, _recommendations,
                   _availableRecommendations, importantRecommendations,
                   storedRecommendations, _disposables, units, wsRuns, restarts>>

\* recommendationsAction, lines 135 and 172: opens the viewlet, no state of the service
ShowRecommendations(m) ==
    /\ m \in messages
    /\ messages' = messages \ {m}
    /\ UNCHANGED <<config, storage, installed, models, service, units, wsRuns,
                   restarts>>

\* CloseAction
CloseMessage(m) ==
    /\ m \in messages
    /\ messages' = messages \ {m}
    /\ UNCHANGED <<config, storage, installed, models, service, units, wsRuns,
                   restarts>>

---------------------------------------------------------------------------
(* dispose, lines 181-183 *)

\* mutant of Dispose: the deferred units are cancelled with the subscription
DisposeCancelling ==
    /\ engine = "ready"
    /\ _disposables > 0
    /\ _disposables' = 0
    /\ units' = <<>>
    /\ UNCHANGED <<config, storage, installed, models, engine, _recommendations,
                   _availableRecommendations, importantRecommendations,
                   importantRecommendationsIgnoreList, storedRecommendations,
                   wsRuns, messages, restarts>>

Dispose ==
    /\ engine = "ready"
    /\ _disposables > 0
    /\ _disposables' = 0
    /\ UNCHANGED <<config, storage, installed, models, engine, _recommendations,
                   _availableRecommendations, importantRecommendations,
                   importantRecommendationsIgnoreList, storedRecommendations,
                   units, wsRuns, messages, restarts>>

---------------------------------------------------------------------------
(* The environment *)

\* the user installs an extension
InstallExtension ==
    /\ installed = <<>>
    /\ installed' = <<Ext1>>
    /\ UNCHANGED <<config, storage, models, service, units, wsRuns, messages,
                   restarts>>

\* the process ends and another starts: the storage and the installed
\* extensions outlive it, and the workbench reopens the documents it had
Restart ==
    /\ restarts < MaxRestarts
    /\ engine /= "none"
    /\ restarts' = restarts + 1
    /\ engine' = "none"
    /\ _recommendations' = <<>>
    /\ _availableRecommendations' = <<>>
    /\ importantRecommendations' = <<>>
    /\ importantRecommendationsIgnoreList' = <<>>
    /\ storedRecommendations' = <<>>
    /\ _disposables' = 0
    /\ units' = <<>>
    /\ wsRuns' = <<>>
    /\ messages' = {}
    /\ UNCHANGED <<config, storage, installed, models>>

Messages ==
    {importantMessage(id, i) : id \in {Id1, Id2}, i \in 1..MaxModels}
        \cup {workspaceMessage(j) : j \in 1..MaxWorkspaceRuns}

Next ==
    \/ Construct
    \/ \E uri \in Uris \cup {NoUri} : ModelAdded(uri)
    \/ \E i \in 1..MaxModels : RunUnit(i)
    \/ \E i \in 1..MaxModels : QueryResolved(i)
    \/ \E i \in 1..MaxModels : QueryRejected(i)
    \/ \E j \in 1..MaxWorkspaceRuns : WorkspaceQueryResolved(j)
    \/ \E j \in 1..MaxWorkspaceRuns : WorkspaceQueryRejected(j)
    \/ \E m \in Messages : NeverShowAgain(m)
    \/ \E m \in Messages : ShowRecommendations(m)
    \/ \E m \in Messages : CloseMessage(m)
    \/ Dispose
    \/ InstallExtension
    \/ Restart

Spec == Init /\ [][Next]_vars

\* the host calls _suggestWorkspaceRecommendations again on the live service
\* (the runOnce() of the interface; the method keeps no record of having run)
RunWorkspaceCheckAgain ==
    /\ engine = "ready"
    /\ galleryEnabled
    /\ Len(wsRuns) < MaxWorkspaceRuns
    /\ wsRuns' = startWorkspaceRun(wsRuns)
    /\ UNCHANGED <<config, storage, installed, models, service, units, messages,
                   restarts>>

NextHost == Next \/ RunWorkspaceCheckAgain

SpecHost == Init /\ [][NextHost]_vars

---------------------------------------------------------------------------
(* A matcher that throws *)

\* line 101 throws: the patterns before it were applied, nothing is stored
\* and getInstalled is not called
RunUnitThrows(i) ==
    /\ i \in 1..Len(units)
    /\ units[i].pc = "scheduled"
    /\ \A j \in 1..(i - 1) : units[j].pc /= "scheduled"
    /\ LET k == firstThrowingPattern(_availableRecommendations, units[i].uri)
       IN  /\ k > 0
           /\ _recommendations' =
                 matchAll(SubSeq(_availableRecommendations, 1, k - 1),
                          units[i].uri, _recommendations)
    /\ units' = faulted(units, i)
    /\ UNCHANGED <<config, storage, installed, models, engine,
                   _availableRecommendations, importantRecommendations,
                   importantRecommendationsIgnoreList, storedRecommendations,
                   _disposables, wsRuns, messages, restarts>>

\* line 121 throws in the callback of .done: the ids before it were handled
QueryResolvedThrows(i) ==
    /\ i \in 1..Len(units)
    /\ units[i].pc = "query"
    /\ LET ids == candidates(importantRecommendations,
                             importantRecommendationsIgnoreList, installed)
           k == firstThrowingCandidate(importantRecommendations, ids, units[i].uri)
           before == SelectSeq(SubSeq(ids, 1, k - 1),
                        LAMBDA id : match(patternOf(importantRecommendations, id),
                                          units[i].uri.fsPath))
       IN  /\ k > 0
           /\ units' = [faulted(units, i) EXCEPT ![i].shown = before]
           /\ messages' = messages \cup
                 {importantMessage(id, i) : id \in Range(before)}
    /\ UNCHANGED <<config, storage, installed, models, service, wsRuns, restarts>>

\* the configurations in which both places can throw
InitFault ==
    /\ Init
    /\ galleryEnabled
    /\ product.extensionTips \in
          {Obj(<<>>), Obj(<<Entry(Id1, GlobTs), Entry(Id2, GlobMd)>>)}
    /\ product.extensionImportantTips.defined
    /\ configuration.recommendations = Obj(<<Id1, Id2>>)
    /\ storage.recommendations = NoEntry
    /\ storage.importantRecommendationsIgnore = NoEntry

NextFault ==
    \/ Next
    \/ ModelAdded(BadUri)
    \/ \E i \in 1..MaxModels : RunUnitThrows(i)
    \/ \E i \in 1..MaxModels : QueryResolvedThrows(i)

SpecFault == InitFault /\ [][NextFault]_vars

\* a product whose important tips share one pattern (product.json with two
\* important tips for the same file type), all features configured, first run
InitFocus ==
    /\ galleryEnabled = TRUE
    /\ product = [extensionTips |-> Obj(<<Entry(Id1, GlobTs), Entry(Id2, GlobMd)>>),
                  extensionImportantTips |->
                      Obj(<<Entry(Id1, GlobTs), Entry(Id2, GlobTs)>>)]
    /\ configuration = [recommendations |-> Obj(<<Id1, Id2>>)]
    /\ storage = [recommendations |-> NoEntry,
                  importantRecommendationsIgnore |-> NoEntry,
                  workspaceRecommendationsIgnore |-> FALSE]
    /\ installed = <<>>
    /\ models = <<>>
    /\ engine = "none"
    /\ _recommendations = <<>>
    /\ _availableRecommendations = <<>>
    /\ importantRecommendations = <<>>
    /\ importantRecommendationsIgnoreList = <<>>
    /\ storedRecommendations = <<>>
    /\ _disposables = 0
    /\ units = <<>>
    /\ wsRuns = <<>>
    /\ messages = {}
    /\ restarts = 0

SpecFocus == InitFocus /\ [][Next]_vars

\* the event loop runs every callback handed to setImmediate (line 97); the
\* extension service owes no answer to getInstalled, so nothing is assumed
\* about the resolution of a query
SpecFair ==
    /\ InitFocus
    /\ [][Next]_vars
    /\ \A i \in 1..MaxModels : WF_vars(RunUnit(i))

---------------------------------------------------------------------------
(* Vocabulary of the properties *)

AllIds == {Id1, Id2}

\* id is the publisher.name of an extension reported installed
IsInstalled(id) ==
    \E k \in 1..Len(installed) :
        installed[k].manifest.publisher \o "." \o installed[k].manifest.name = id

\* the ids of the persisted ignore list
PersistedIgnored == Range(storage.importantRecommendationsIgnore.items)

\* this step shows an important message for id
ShowsImportant(id) ==
    \E i \in 1..Len(units') :
        /\ id \in Range(units'[i].shown)
        /\ (i > Len(units) \/ id \notin Range(units[i].shown))

\* this step shows a workspace message
ShowsWorkspace(j) ==
    /\ j \in 1..Len(wsRuns')
    /\ wsRuns'[j].pc = "shown"
    /\ (j > Len(wsRuns) \/ wsRuns[j].pc /= "shown")

\* unit i has run its match step
Matched(i) == units[i].pc /= "scheduled"

NoDuplicates(s) == \A a, b \in 1..Len(s) : s[a] = s[b] => a = b

---------------------------------------------------------------------------
\* C1: once the deferred unit of a document has run its match step, every id
\* grouped under a pattern of the index that matches the document's path, and
\* every id the tip map gives a matching pattern, is in getRecommendations().
C1_MatchedIdsRecommended ==
    \A i \in 1..Len(units) :
        Matched(i) =>
            /\ \A k \in 1..Len(_availableRecommendations) :
                  match(_availableRecommendations[k].key, units[i].uri.fsPath)
                      => Range(_availableRecommendations[k].value)
                             \subseteq Range(getRecommendations)
            /\ \A e \in Range(product.extensionTips.entries) :
                  match(e.value, units[i].uri.fsPath)
                      => e.key \in Range(getRecommendations)

\* a matched document whose pattern groups two ids, with another unit waiting
C1_Witness ==
    \E i, j \in 1..Len(units) :
        /\ Matched(i)
        /\ units[j].pc = "scheduled"
        /\ storedRecommendations = <<>>
        /\ \E k \in 1..Len(_availableRecommendations) :
              /\ match(_availableRecommendations[k].key, units[i].uri.fsPath)
              /\ Len(_availableRecommendations[k].value) = 2

\* C2: once an id is in the persisted ignore list, no step shows an important
\* message for it, in this process or in one started later from the same store.
C2_IgnoredNeverShown ==
    [][\A id \in AllIds : id \in PersistedIgnored => ~ShowsImportant(id)]_vars

\* after a restart, a document matching the ignored id was processed to the end
\* and showed nothing for it, though it is not installed
C2_Witness ==
    /\ restarts = 1
    /\ Id1 \in PersistedIgnored
    /\ ~IsInstalled(Id1)
    /\ \E i \in 1..Len(units) :
          /\ units[i].pc = "done"
          /\ \E e \in Range(importantRecommendations) :
                e.key = Id1 /\ match(e.value, units[i].uri.fsPath)
          /\ Id1 \notin Range(units[i].shown)

\* C3: no step shows an important message for an id that is installed, and no
\* workspace message offers an id that is installed.
C3_InstalledNeverShown ==
    [][/\ \A id \in AllIds : IsInstalled(id) => ~ShowsImportant(id)
       /\ \A j \in 1..MaxWorkspaceRuns :
             ShowsWorkspace(j) =>
                 \A id \in Range(wsRuns'[j].shown) : ~IsInstalled(id)]_vars

\* both gates ran with pub.ext1 installed and matching: the important gate
\* stayed silent for it, the workspace gate offered pub.ext2 alone
C3_Witness ==
    /\ IsInstalled(Id1)
    /\ \E i \in 1..Len(units) :
          /\ units[i].pc = "done"
          /\ \E e \in Range(importantRecommendations) :
                e.key = Id1 /\ match(e.value, units[i].uri.fsPath)
          /\ Id1 \notin Range(importantRecommendationsIgnoreList)
          /\ Id1 \notin Range(units[i].shown)
    /\ \E j \in 1..Len(wsRuns) :
          /\ wsRuns[j].pc = "shown"
          /\ wsRuns[j].allRecommendations = <<Id1, Id2>>
          /\ wsRuns[j].shown = <<Id2>>

\* C4: however often the workspace check is invoked in one process, at most
\* one workspace message is shown in that process.
C4_AtMostOneWorkspaceMessage ==
    Cardinality({j \in 1..Len(wsRuns) : wsRuns[j].pc = "shown"}) <= 1

\* C5: once the workspace dismissal flag is persisted true, no step starts a
\* workspace query and no step shows a workspace message, in this process or
\* in a later one.
C5_DismissedNeverShown ==
    [][storage.workspaceRecommendationsIgnore =>
          /\ Len(wsRuns') <= Len(wsRuns)
          /\ \A j \in 1..MaxWorkspaceRuns : ~ShowsWorkspace(j)]_vars

\* a service constructed after a restart, with the flag set, recommendations
\* configured and none of them installed, has started no workspace run
C5_Witness ==
    /\ restarts = 1
    /\ storage.workspaceRecommendationsIgnore
    /\ galleryEnabled
    /\ engine = "ready"
    /\ configuration.recommendations = Obj(<<Id1, Id2>>)
    /\ installed = <<>>
    /\ wsRuns = <<>>

\* C6: within a process no id leaves the recommendation set, and the persisted
\* recommendations always include the ids loaded from that key at startup.
C6_RecommendationsMonotone ==
    [][restarts' = restarts =>
          /\ Range(_recommendations) \subseteq Range(_recommendations')
          /\ Range(storedRecommendations')
                \subseteq Range(storage'.recommendations.items)]_vars

\* a set loaded with pub.ext1 after a restart has grown by a match and was
\* persisted whole
C6_Witness ==
    /\ storedRecommendations = <<Id1>>
    /\ Id1 \in Range(_recommendations)
    /\ Id2 \in Range(_recommendations)
    /\ storage.recommendations.items = _recommendations

\* C7: the match step of a unit whose document path another unit has already
\* matched changes neither getRecommendations() nor the persisted
\* recommendations, and leaves the set free of duplicates.
C7_SecondObservationAddsNothing ==
    [][\A i \in 1..Len(units) :
          ( /\ units[i].pc = "scheduled"
            /\ i <= Len(units')
            /\ units'[i].pc = "query"
            /\ \E j \in 1..Len(units) :
                  j /= i /\ Matched(j) /\ units[j].uri = units[i].uri )
          => /\ _recommendations' = _recommendations
             /\ storage'.recommendations = storage.recommendations
             /\ NoDuplicates(_recommendations')]_vars

\* the same matching path was observed twice and both units have matched
C7_Witness ==
    \E i, j \in 1..Len(units) :
        /\ i /= j
        /\ units[i].uri = units[j].uri
        /\ Matched(i) /\ Matched(j)
        /\ storedRecommendations = <<>>
        /\ Len(_recommendations) = 2
        /\ \E k \in 1..Len(_availableRecommendations) :
              match(_availableRecommendations[k].key, units[i].uri.fsPath)

\* C8: construction over a list key that holds unparseable text ends with the
\* service ready, the collection of that key empty, the document events
\* subscribed and the workspace check run.
C8_UnparseableStartsEmpty ==
    [][( /\ engine = "none" /\ engine' /= "none"
         /\ galleryEnabled
         /\ product.extensionTips.defined
         /\ \/ storage.recommendations.kind = "garbage"
            \/ storage.importantRecommendationsIgnore.kind = "garbage" )
       => /\ engine' = "ready"
          /\ _disposables' = 1
          /\ storage.recommendations.kind = "garbage" => _recommendations' = <<>>
          /\ storage.importantRecommendationsIgnore.kind = "garbage"
                => importantRecommendationsIgnoreList' = <<>>
          /\ ( /\ ~storage.workspaceRecommendationsIgnore
               /\ configuration.recommendations.defined )
                => Len(wsRuns') = 1]_vars

\* C9: a rejected installed-extensions query is handled as an empty installed
\* list: the unit shows every matching important tip that is not ignored, and
\* the workspace run shows its whole configured list.
C9_RejectionAsNothingInstalled ==
    [][/\ \A i \in 1..Len(units) :
             (units[i].pc = "query" /\ i <= Len(units') /\ units'[i].pc = "rejected")
             => Range(units'[i].shown) =
                   {e.key : e \in
                       {t \in Range(importantRecommendations) :
                           /\ t.key \notin Range(importantRecommendationsIgnoreList)
                           /\ match(t.value, units[i].uri.fsPath)}}
       /\ \A j \in 1..Len(wsRuns) :
             (wsRuns[j].pc = "query" /\ j <= Len(wsRuns') /\ wsRuns'[j].pc = "rejected")
             => /\ wsRuns'[j].pc = "shown"
                /\ wsRuns'[j].shown = wsRuns[j].allRecommendations]_vars

\* C10 as stated: with the tip map absent or empty nothing is indexed, no
\* document is matched and no message of either kind is shown.
C10_NoTipsNoMessages ==
    (~product.extensionTips.defined \/ product.extensionTips.entries = <<>>)
    => /\ _availableRecommendations = <<>>
       /\ \A i \in 1..Len(units) : ~Matched(i) /\ units[i].shown = <<>>
       /\ \A j \in 1..Len(wsRuns) : wsRuns[j].pc /= "shown"

\* C10 amended: with the tip map absent nothing is indexed, no document event
\* is subscribed to, no unit is scheduled and so no important message is shown;
\* with the tip map present but empty nothing is indexed and matching adds no
\* id to the set loaded at startup. The workspace gate is not concerned.
C10_AbsentTipsNoTipWork ==
    /\ ~product.extensionTips.defined
          => /\ _availableRecommendations = <<>>
             /\ _disposables = 0
             /\ units = <<>>
             /\ _recommendations = <<>>
             /\ \A m \in messages : m.kind /= "important"
    /\ (product.extensionTips.defined /\ product.extensionTips.entries = <<>>)
          => /\ _availableRecommendations = <<>>
             /\ Range(_recommendations) = Range(storedRecommendations)

\* no tip map, important tips configured, documents opened on the constructed
\* service: nothing was scheduled, and the workspace message was shown
C10_Witness ==
    /\ ~product.extensionTips.defined
    /\ product.extensionImportantTips.defined
    /\ engine = "ready"
    /\ models = <<[fsPath |-> "a.ts"], [fsPath |-> "b.md"]>>
    /\ units = <<>>
    /\ \E j \in 1..Len(wsRuns) : wsRuns[j].pc = "shown"

\* the ids the tip map gives a pattern that matches the document of unit i
TipsMatching(i) ==
    {e.key : e \in {t \in Range(product.extensionTips.entries) :
                       match(t.value, units[i].uri.fsPath)}}

\* C11: a step in which the callback of one unit throws changes no other unit,
\* no subscription, no workspace run and nothing stored, and closes no
\* message; and every unit that got past its match step, whatever threw
\* before it, has its matching ids in the set and in the stored list.
C11_FaultContained ==
    [][/\ \A i \in 1..Len(units) :
             ( /\ i <= Len(units')
               /\ units[i].pc /= "threw"
               /\ units'[i].pc = "threw" )
             => /\ Len(units') = Len(units)
                /\ \A j \in 1..Len(units) : j /= i => units'[j] = units[j]
                /\ wsRuns' = wsRuns
                /\ _disposables' = _disposables
                /\ engine' = engine
                /\ storage' = storage
                /\ messages \subseteq messages'
       /\ \A j \in 1..Len(units') :
             units'[j].pc \in {"query", "done", "rejected"}
             => \A e \in Range(product.extensionTips.entries) :
                   match(e.value, units'[j].uri.fsPath)
                   => /\ e.key \in Range(_recommendations')
                      /\ e.key \in Range(storage'.recommendations.items)]_vars

\* the first document made the matcher throw; the document observed after it
\* was matched, stored and notified, and the workspace message was shown
C11_Witness ==
    /\ Len(units) = 2
    /\ units[1].pc = "threw"
    /\ units[1].uri = BadUri
    /\ units[2].pc = "done"
    /\ units[2].shown /= <<>>
    /\ TipsMatching(2) /= {}
    /\ TipsMatching(2) \subseteq Range(storage.recommendations.items)
    /\ \E j \in 1..Len(wsRuns) : wsRuns[j].pc = "shown"

\* C12: for a service constructed with tip data, the ids stored under
\* 'extensionsAssistant/recommendations' are the ids getRecommendations()
\* returns, in every state (matching and storing are one uninterrupted step).
C12_StoredEqualsMemory ==
    (engine = "ready" /\ galleryEnabled /\ product.extensionTips.defined)
    => Range(storage.recommendations.items) = Range(getRecommendations)

\* two documents have added an id each, one of their queries is still pending
C12_Witness ==
    /\ engine = "ready"
    /\ Len(units) = 2
    /\ units[1].pc = "query"
    /\ units[2].pc = "done"
    /\ Range(getRecommendations) = {Id1, Id2}
    /\ units[1].uri /= units[2].uri

\* the step a unit was at before this step ("none" when it is new)
Before(i) == IF i <= Len(units) THEN units[i].pc ELSE "none"

\* C13: a unit goes from scheduled to its match-and-store step, from there to
\* the pending query, and only from the pending query to its messages: a unit
\* that shows a message was waiting for the query before that step, and the
\* ids its document matches were already stored; a unit that has not stored
\* has shown nothing.
C13_StepsInOrder ==
    [][\A i \in 1..Len(units') :
          /\ units'[i].pc = "scheduled"
                => Before(i) \in {"none", "scheduled"} /\ units'[i].shown = <<>>
          /\ units'[i].pc = "query"
                => /\ Before(i) \in {"scheduled", "query"}
                   /\ units'[i].shown = <<>>
                   /\ \A e \in Range(product.extensionTips.entries) :
                         match(e.value, units'[i].uri.fsPath)
                         => e.key \in Range(storage'.recommendations.items)
          /\ units'[i].pc \in {"done", "rejected"}
                => Before(i) \in {"query", units'[i].pc}
          /\ (units'[i].shown /= <<>> /\ Before(i) /= units'[i].pc)
                => /\ units[i].pc = "query"
                   /\ TipsMatching(i) \subseteq Range(storage.recommendations.items)
                   /\ \A id \in Range(units'[i].shown) :
                         importantMessage(id, i) \in messages' \ messages]_vars

\* a unit has gone through all its steps and shown a message, for a document
\* whose ids were stored, while the unit after it has not started
C13_Witness ==
    /\ Len(units) = 2
    /\ units[1].pc = "done"
    /\ units[1].shown /= <<>>
    /\ TipsMatching(1) /= {}
    /\ TipsMatching(1) \subseteq Range(storage.recommendations.items)
    /\ units[2].pc = "scheduled"

\* the important tips that qualify for unit i's document in the current state
Qualifying(i) ==
    {id \in AllIds :
        /\ id \notin Range(importantRecommendationsIgnoreList)
        /\ ~IsInstalled(id)
        /\ \E e \in Range(product.extensionImportantTips.entries) :
              e.key = id /\ match(e.value, units[i].uri.fsPath)}

\* C14: when a unit's query resolves, it shows exactly one message for each
\* important tip that is not ignored, not installed and whose pattern matches
\* the document, whether or not other tips qualify too; and no important
\* message appears in any other way or for any other id.
C14_OnePerQualifyingTip ==
    [][/\ \A i \in 1..Len(units) :
             (Len(units') = Len(units) /\ units[i].pc = "query"
                 /\ units'[i].pc = "done")
             => /\ Range(units'[i].shown) = Qualifying(i)
                /\ NoDuplicates(units'[i].shown)
                /\ messages' \ messages =
                      {importantMessage(id, i) : id \in Qualifying(i)}
                /\ Cardinality(messages' \ messages) = Cardinality(Qualifying(i))
       /\ \A m \in messages' \ messages :
             m.kind = "important"
             => /\ m.run \in 1..Len(units)
                /\ units[m.run].pc = "query"
                /\ m.id \in Qualifying(m.run)]_vars

\* one document got a message for each of two tips with the same pattern;
\* after the first was dismissed for good, a second document of the same
\* type still got the other one
C14_Witness ==
    /\ Len(units) = 2
    /\ units[1].uri = units[2].uri
    /\ units[1].shown = <<Id1, Id2>>
    /\ units[2].shown = <<Id2>>
    /\ importantRecommendationsIgnoreList = <<Id1>>
    /\ importantMessage(Id2, 1) \in messages
    /\ importantMessage(Id2, 2) \in messages

\* the configured workspace recommendations that are not installed, in order
Batch ==
    SelectSeq(configuration.recommendations.entries, LAMBDA id : ~IsInstalled(id))

\* C15: a workspace check that finds the dismissal flag false offers exactly
\* the configured ids that are not installed, in the configured order, in one
\* message if there is any such id and in none otherwise; with an empty
\* configured list no check is started, and a workspace message appears in
\* no other way.
C15_WorkspaceBatch ==
    [][/\ \A j \in 1..Len(wsRuns) :
             (Len(wsRuns') = Len(wsRuns) /\ wsRuns[j].pc = "query"
                 /\ wsRuns'[j].pc \in {"done", "shown"})
             => IF Batch = <<>>
                THEN wsRuns'[j].pc = "done" /\ messages' = messages
                ELSE /\ wsRuns'[j].pc = "shown"
                     /\ wsRuns'[j].shown = Batch
                     /\ workspaceMessage(j) \notin messages
                     /\ messages' = messages \cup {workspaceMessage(j)}
       /\ \A m \in messages' \ messages :
             m.kind = "workspace"
             => /\ m.run \in 1..Len(wsRuns)
                /\ wsRuns[m.run].pc = "query"
                /\ Batch /= <<>>
       /\ (engine = "none" /\ engine' = "ready" /\ galleryEnabled)
             => /\ messages' = messages
                /\ IF storage.workspaceRecommendationsIgnore
                      \/ ~configuration.recommendations.defined
                      \/ configuration.recommendations.entries = <<>>
                   THEN wsRuns' = wsRuns
                   ELSE /\ Len(wsRuns') = Len(wsRuns) + 1
                        /\ wsRuns'[Len(wsRuns')].pc = "query"]_vars

\* of two configured ids the first is installed: the only check of this
\* process offered the second one alone, in one message that is still open
C15_Witness ==
    /\ configuration.recommendations = Obj(<<Id1, Id2>>)
    /\ IsInstalled(Id1)
    /\ Len(wsRuns) = 1
    /\ wsRuns[1].pc = "shown"
    /\ wsRuns[1].shown = <<Id2>>
    /\ messages = {workspaceMessage(1)}

IsPrefix(a, b) == Len(a) <= Len(b) /\ SubSeq(b, 1, Len(a)) = a

\* the ignore list exists: _suggestTips got past its guard and parsed it
Hydrated == engine = "ready" /\ galleryEnabled /\ product.extensionTips.defined

\* C16: the ignore list only grows at its end and is always stored: while the
\* list exists the stored list equals it; within a process every change of
\* the list is the append of the id of a dismissed important message, stored
\* in the same step; the stored list never loses an entry, restarts included;
\* and a message that goes away without a change of the list (show
\* recommendations, close) leaves the stored list as it was.
C16_IgnoreListDurable ==
    [][/\ Hydrated' =>
             /\ storage'.importantRecommendationsIgnore.kind \in {"absent", "array"}
             /\ storage'.importantRecommendationsIgnore.items =
                   importantRecommendationsIgnoreList'
       /\ (engine = "ready" /\ engine' = "ready") =>
             /\ IsPrefix(importantRecommendationsIgnoreList,
                         importantRecommendationsIgnoreList')
             /\ importantRecommendationsIgnoreList' /= importantRecommendationsIgnoreList
                   => \E m \in messages \ messages' :
                         /\ m.kind = "important"
                         /\ importantRecommendationsIgnoreList' =
                               Append(importantRecommendationsIgnoreList, m.id)
                         /\ storage'.importantRecommendationsIgnore =
                               JSONstringify(importantRecommendationsIgnoreList')
       /\ IsPrefix(storage.importantRecommendationsIgnore.items,
                   storage'.importantRecommendationsIgnore.items)
       /\ importantRecommendationsIgnoreList' = importantRecommendationsIgnoreList
             => storage'.importantRecommendationsIgnore =
                   storage.importantRecommendationsIgnore]_vars

\* an id dismissed in the first process was loaded by the second, which
\* appended another one and stored both
C16_Witness ==
    /\ restarts = 1
    /\ Hydrated
    /\ importantRecommendationsIgnoreList = <<Id1, Id2>>
    /\ storage.importantRecommendationsIgnore = JSONstringify(<<Id1, Id2>>)

\* C17: a scheduled unit eventually matches and stores, unless the process
\* ends first, whether or not the queries of other units ever come back; and
\* a unit waiting for its query can receive the answer and show its messages
\* whatever the other units are waiting for.
C17_UnitsProgress ==
    /\ \A i \in 1..MaxModels :
          (i <= Len(units) /\ units[i].pc = "scheduled")
          ~> \/ engine = "none"
             \/ (i <= Len(units) /\ units[i].pc \in {"query", "done", "rejected"}
                 /\ TipsMatching(i) \subseteq Range(storage.recommendations.items))
    /\ [](\A i \in 1..MaxModels :
             (i <= Len(units) /\ units[i].pc = "query")
             => ENABLED QueryResolved(i))

\* the first document's query has not come back; the second document has
\* matched, stored and shown its messages
C17_Witness ==
    /\ Len(units) = 2
    /\ units[1].pc = "query"
    /\ units[2].pc = "done"
    /\ units[2].shown = <<Id1, Id2>>
    /\ TipsMatching(2) \subseteq Range(storage.recommendations.items)
    /\ importantMessage(Id1, 2) \in messages

\* C18: dispose releases the subscription and nothing else: the step leaves
\* the recommendations, the ignore list, the dismissal flag, the store, the
\* units and the messages as they were; a document added while nothing is
\* subscribed schedules no unit; and after dispose a scheduled unit at the
\* head of the queue can still match and store, and a waiting unit can still
\* get its answer and show its messages.
C18_DisposeOnlyUnsubscribes ==
    /\ [][/\ (engine = "ready" /\ engine' = "ready" /\ _disposables' /= _disposables)
                => /\ _disposables' = 0
                   /\ UNCHANGED <<config, storage, installed, models,
                                  _recommendations, _availableRecommendations,
                                  importantRecommendations,
                                  importantRecommendationsIgnoreList,
                                  storedRecommendations, units, wsRuns, messages,
                                  restarts>>
          /\ (models' /= models /\ _disposables = 0) => units' = units]_vars
    /\ [](\A i \in 1..MaxModels :
             (engine = "ready" /\ _disposables = 0 /\ i <= Len(units))
             => /\ (units[i].pc = "scheduled"
                      /\ \A j \in 1..(i - 1) : units[j].pc /= "scheduled")
                   => ENABLED RunUnit(i)
                /\ units[i].pc = "query" => ENABLED QueryResolved(i))

\* after dispose: the unit of the first document is still waiting to run, and
\* a second document was added without a unit
C18_Witness ==
    /\ Hydrated
    /\ _disposables = 0
    /\ Len(models) = 2
    /\ models[2] /= NoUri
    /\ Len(units) = 1
    /\ units[1].pc = "scheduled"
    /\ TipsMatching(1) /= {}

\* how often id occurs in a list
Count(list, id) == Cardinality({k \in 1..Len(list) : list[k] = id})

\* how many messages for id this process has shown, and how many are open
ShownFor(us, id) == Cardinality({i \in 1..Len(us) : id \in Range(us[i].shown)})
OpenFor(ms, id) == Cardinality({m \in ms : m.kind = "important" /\ m.id = id})

\* C19: the ignore list, in memory and as stored, never holds an id twice.
C19_NoDuplicateIgnored ==
    /\ NoDuplicates(importantRecommendationsIgnoreList)
    /\ NoDuplicates(storage.importantRecommendationsIgnore.items)

\* C19, as the code has it: an id gets one entry for each of its messages
\* that is dismissed for good. In a process that has shown messages for id,
\* the entries for id and the open messages for id together are never more
\* than the messages shown for id; in a process that has shown none, the
\* entries for id stay as they were loaded.
C19_OneEntryPerDismissedMessage ==
    [][\A id \in AllIds :
          /\ ShownFor(units', id) > 0
                => Count(importantRecommendationsIgnoreList', id)
                      + OpenFor(messages', id) <= ShownFor(units', id)
          /\ (ShownFor(units', id) = 0 /\ engine = "ready" /\ engine' = "ready")
                => Count(importantRecommendationsIgnoreList', id) =
                      Count(importantRecommendationsIgnoreList, id)]_vars

\* two documents of one type each got a message for the same id before either
\* was dismissed; both were then dismissed for good
C19_Witness ==
    /\ Len(units) = 2
    /\ Id1 \in Range(units[1].shown)
    /\ Id1 \in Range(units[2].shown)
    /\ importantRecommendationsIgnoreList = <<Id1, Id1>>
    /\ storage.importantRecommendationsIgnore = JSONstringify(<<Id1, Id1>>)

\* C20: a step that shows an important message for an id finds the id
\* outside the ignore list as it is at that step; so a unit that was scheduled
\* or waiting for its query when the id was dismissed for good shows nothing
\* for it when its query comes back.
C20_IgnoreCheckedAtResolution ==
    [][\A id \in AllIds :
          /\ ShowsImportant(id)
                => /\ id \notin Range(importantRecommendationsIgnoreList)
                   /\ id \notin Range(importantRecommendationsIgnoreList')
          /\ \A i \in 1..Len(units) :
                (Len(units') = Len(units)
                    /\ units[i].pc \in {"scheduled", "query"}
                    /\ id \in Range(importantRecommendationsIgnoreList)
                    /\ units'[i].pc = "done")
                => /\ id \notin Range(units'[i].shown)
                   /\ importantMessage(id, i) \notin messages']_vars

\* in one process: the first document got a message for an id, the id was
\* dismissed for good, and the query of a second document of the same type
\* came back without a message for it
C20_Witness ==
    /\ restarts = 0
    /\ Len(units) = 2
    /\ units[1].uri = units[2].uri
    /\ units[1].shown = <<Id1>>
    /\ units[2].pc = "done"
    /\ units[2].shown = <<>>
    /\ importantRecommendationsIgnoreList = <<Id1>>
    /\ ~IsInstalled(Id1)

====
